---------------------------- MODULE Spec2Model ----------------------------
(***************************************************************************)
(* A model of lib/git.js of gpm: the version selector (sortTags,           *)
(* matchTag), the remote ref reader (listTags, listBranches), the trust    *)
(* verifier (verifyRepo) and the content digest engine (listTree,          *)
(* checksum, treeHash).                                                    *)
(*                                                                         *)
(* Strings are sequences of one-character strings, so that indexOf, trim,  *)
(* split, replace, the regular expressions and the default sort of the     *)
(* code are computed and not assumed.                                      *)
(***************************************************************************)
EXTENDS Integers, Sequences, FiniteSets, TLC

VARIABLES
  \* ---- version selector
  tags,        \* the tag names handed to sortTags / matchTag
  desc,        \* sortTags' second argument
  needed,      \* matchTag's constraint
  tagsCall,    \* "none", "sortTags" or "matchTag": the call that has returned
  tagsRet,     \* what the call produced
  \* ---- remote ref reader
  stdout,      \* what `git ls-remote` printed
  refsCall,    \* "none", "listTags" or "listBranches"
  refsRet,     \* what the call produced
  \* ---- trust verifier
  vTag, vCommit, vStdio,  \* verifyRepo's arguments
  child,       \* the spawned child: its argv and the events it has emitted
  verdict,     \* the promise verifyRepo returned
  \* ---- content digest engine
  fs,          \* the checkout: tracked relative path -> [content, fault]
  listing,     \* the order in which git lists the tracked paths
  lsErr,       \* whether `git ls-tree` fails
  algo,        \* the hash algorithm
  pc,          \* where treeHash stands
  files,       \* treeHash's local `files`
  streams,     \* every read stream checksum has created, in creation order
  ctx,         \* treeHash's running hash context
  fed,         \* the chunks handed to ctx.update, in order
  result,      \* what treeHash's promise settled with
  runs,        \* how many treeHash calls have been started on this checkout
  firstResult  \* what the first treeHash call settled with

tagVars   == <<tags, desc, needed, tagsCall, tagsRet>>
refVars   == <<stdout, refsCall, refsRet>>
verifyVars == <<vTag, vCommit, vStdio, child, verdict>>
treeVars  == <<fs, listing, lsErr, algo, pc, files, streams, ctx, fed, result,
               runs, firstResult>>
vars == <<tagVars, refVars, verifyVars, treeVars>>

-----------------------------------------------------------------------------
(* Bounds of the model.                                                    *)
MaxTags  == 3   \* longest tag list handed to sortTags / matchTag
MaxLines == 3   \* most lines in the ls-remote output
MaxFiles == 2   \* most tracked files in the checkout

-----------------------------------------------------------------------------
(* Characters and strings.                                                 *)

\* The code unit of a character (the order of String comparison).
CharCode(c) ==
  CASE c = "\t" -> 9   [] c = "\n" -> 10  [] c = " " -> 32
    [] c = "*" -> 42   [] c = "+" -> 43   [] c = "-" -> 45  [] c = "." -> 46
    [] c = "/" -> 47
    [] c = "0" -> 48   [] c = "1" -> 49   [] c = "2" -> 50  [] c = "3" -> 51
    [] c = "4" -> 52   [] c = "5" -> 53   [] c = "6" -> 54  [] c = "7" -> 55
    [] c = "8" -> 56   [] c = "9" -> 57
    [] c = "=" -> 61   [] c = ">" -> 62
    [] c = "X" -> 88   [] c = "^" -> 94
    [] c = "a" -> 97   [] c = "b" -> 98   [] c = "c" -> 99  [] c = "d" -> 100
    [] c = "e" -> 101  [] c = "f" -> 102  [] c = "g" -> 103 [] c = "h" -> 104
    [] c = "o" -> 111  [] c = "r" -> 114  [] c = "s" -> 115 [] c = "t" -> 116
    [] c = "v" -> 118  [] c = "x" -> 120  [] c = "y" -> 121
    [] c = "{" -> 123  [] c = "}" -> 125

IsDigit(c) == CharCode(c) >= 48 /\ CharCode(c) <= 57
IsAlnum(c) == IsDigit(c) \/ (CharCode(c) >= 97 /\ CharCode(c) <= 122)
                         \/ (CharCode(c) >= 65 /\ CharCode(c) <= 90)
IsSpace(c) == c \in {" ", "\n", "\t"}

\* String.prototype.indexOf for a one-character needle: 0-based, -1 if absent.
IndexOf(s, c) ==
  IF \E i \in 1..Len(s) : s[i] = c
    THEN (CHOOSE i \in 1..Len(s) : s[i] = c /\ \A j \in 1..(i-1) : s[j] # c) - 1
    ELSE -1

\* String.prototype.indexOf for a needle of several characters.
IndexOfStr(s, n) ==
  LET At(i) == i + Len(n) - 1 <= Len(s) /\ SubSeq(s, i, i + Len(n) - 1) = n
  IN IF \E i \in 1..Len(s) : At(i)
       THEN (CHOOSE i \in 1..Len(s) : At(i) /\ \A j \in 1..(i-1) : ~At(j)) - 1
       ELSE -1

\* String.prototype.replace(n, ''): the first occurrence of n removed.
RemoveFirst(s, n) ==
  LET i == IndexOfStr(s, n)
  IN IF i < 0 THEN s ELSE SubSeq(s, 1, i) \o SubSeq(s, i + Len(n) + 1, Len(s))

\* String.prototype.trim.
RECURSIVE TrimLeft(_)
TrimLeft(s) == IF s # <<>> /\ IsSpace(Head(s)) THEN TrimLeft(Tail(s)) ELSE s
RECURSIVE TrimRight(_)
TrimRight(s) ==
  IF s # <<>> /\ IsSpace(s[Len(s)]) THEN TrimRight(SubSeq(s, 1, Len(s) - 1)) ELSE s
Trim(s) == TrimRight(TrimLeft(s))

\* String.prototype.split(c): always at least one piece (''.split(c) is ['']).
RECURSIVE Split(_, _)
Split(s, c) ==
  LET i == IndexOf(s, c)
  IN IF i < 0 THEN <<s>>
     ELSE <<SubSeq(s, 1, i)>> \o Split(SubSeq(s, i + 2, Len(s)), c)

\* a < b as strings: by code unit, a proper prefix first.
RECURSIVE StrLess(_, _)
StrLess(a, b) ==
  IF b = <<>> THEN FALSE
  ELSE IF a = <<>> THEN TRUE
  ELSE IF Head(a) # Head(b) THEN CharCode(Head(a)) < CharCode(Head(b))
  ELSE StrLess(Tail(a), Tail(b))

\* The concatenation of a sequence of strings.
RECURSIVE Concat(_)
Concat(ss) == IF ss = <<>> THEN <<>> ELSE Head(ss) \o Concat(Tail(ss))

\* The one element of a singleton set. In Only({F(x) : x \in {e}}) the bound x is
\* the value of e, computed once however often F uses it.
Only(S) == CHOOSE x \in S : TRUE

\* The sequences over S of length at most n.
SeqsUpTo(S, n) == UNION {[1..k -> S] : k \in 0..n}

-----------------------------------------------------------------------------
(* The vendored semver library (require('../vendor/semver')): node-semver. *)
(* Only what gt, lt and satisfies need.                                    *)

RECURSIVE NumVal(_)
NumVal(s) == IF s = <<>> THEN 0 ELSE NumVal(SubSeq(s, 1, Len(s) - 1)) * 10
                                     + (CharCode(s[Len(s)]) - 48)

\* NUMERICIDENTIFIER: 0|[1-9]\d*
IsNumericId(s) ==
  /\ Len(s) >= 1
  /\ \A i \in 1..Len(s) : IsDigit(s[i])
  /\ (Len(s) = 1 \/ s[1] # "0")

\* A prerelease or build identifier: [0-9A-Za-z-]+ (a numeric one without
\* leading zeros in a prerelease).
IsIdentifier(s) ==
  /\ Len(s) >= 1
  /\ \A i \in 1..Len(s) : IsAlnum(s[i]) \/ s[i] = "-"
IsPrereleaseId(s) ==
  /\ IsIdentifier(s)
  /\ ((\A i \in 1..Len(s) : IsDigit(s[i])) => IsNumericId(s))

\* new SemVer(version): v?MAJOR.MINOR.PATCH(-PRERELEASE)?(+BUILD)?
\* valid is FALSE where the constructor throws TypeError('Invalid Version').
SemVer(version) ==
  LET s     == IF version # <<>> /\ Head(version) = "v" THEN Tail(version) ELSE version
      plus  == IndexOf(s, "+")
      core  == IF plus < 0 THEN s ELSE SubSeq(s, 1, plus)
      build == IF plus < 0 THEN <<>> ELSE SubSeq(s, plus + 2, Len(s))
      dash  == IndexOf(core, "-")
      main  == IF dash < 0 THEN core ELSE SubSeq(core, 1, dash)
      pre   == IF dash < 0 THEN <<>> ELSE SubSeq(core, dash + 2, Len(core))
      nums  == Split(main, ".")
      pres  == IF dash < 0 THEN <<>> ELSE Split(pre, ".")
      blds  == IF plus < 0 THEN <<>> ELSE Split(build, ".")
      ok    == /\ Len(nums) = 3
               /\ \A i \in 1..3 : IsNumericId(nums[i])
               /\ \A i \in 1..Len(pres) : IsPrereleaseId(pres[i])
               /\ \A i \in 1..Len(blds) : IsIdentifier(blds[i])
  IN IF ok
       THEN [valid |-> TRUE, major |-> NumVal(nums[1]), minor |-> NumVal(nums[2]),
             patch |-> NumVal(nums[3]), prerelease |-> pres]
       ELSE [valid |-> FALSE, major |-> 0, minor |-> 0, patch |-> 0,
             prerelease |-> <<>>]

\* compareIdentifiers: numeric ones by value and below the others, the others
\* as strings.
CompareIdentifiers(a, b) ==
  LET anum == \A i \in 1..Len(a) : IsDigit(a[i])
      bnum == \A i \in 1..Len(b) : IsDigit(b[i])
  IN IF anum /\ bnum
       THEN (IF NumVal(a) < NumVal(b) THEN -1 ELSE IF NumVal(a) > NumVal(b) THEN 1 ELSE 0)
     ELSE IF anum THEN -1
     ELSE IF bnum THEN 1
     ELSE IF StrLess(a, b) THEN -1
     ELSE IF StrLess(b, a) THEN 1
     ELSE 0

\* SemVer.prototype.comparePre: a version without prerelease is the greater.
RECURSIVE ComparePreFrom(_, _, _)
ComparePreFrom(p, q, i) ==
  IF i > Len(p) /\ i > Len(q) THEN 0
  ELSE IF i > Len(q) THEN 1
  ELSE IF i > Len(p) THEN -1
  ELSE IF CompareIdentifiers(p[i], q[i]) # 0 THEN CompareIdentifiers(p[i], q[i])
  ELSE ComparePreFrom(p, q, i + 1)

ComparePre(a, b) ==
  IF a.prerelease # <<>> /\ b.prerelease = <<>> THEN -1
  ELSE IF a.prerelease = <<>> /\ b.prerelease # <<>> THEN 1
  ELSE IF a.prerelease = <<>> /\ b.prerelease = <<>> THEN 0
  ELSE ComparePreFrom(a.prerelease, b.prerelease, 1)

\* SemVer.prototype.compare on two parsed versions: -1, 0 or 1.
CompareParsed(a, b) ==
  IF a.major # b.major THEN (IF a.major < b.major THEN -1 ELSE 1)
  ELSE IF a.minor # b.minor THEN (IF a.minor < b.minor THEN -1 ELSE 1)
  ELSE IF a.patch # b.patch THEN (IF a.patch < b.patch THEN -1 ELSE 1)
  ELSE ComparePre(a, b)

\* What a call of the library gives: a value, or the TypeError it throws.
Returned(v) == [threw |-> FALSE, value |-> v]
Thrown      == [threw |-> TRUE,  value |-> "TypeError"]

\* semver.gt(a, b) and semver.lt(a, b): both construct SemVer(a) and SemVer(b),
\* which throws on a string that is no version.
SemverGt(a, b) ==
  Only({ IF x.valid /\ y.valid THEN Returned(CompareParsed(x, y) > 0) ELSE Thrown :
         x \in {SemVer(a)}, y \in {SemVer(b)} })
SemverLt(a, b) ==
  Only({ IF x.valid /\ y.valid THEN Returned(CompareParsed(x, y) < 0) ELSE Thrown :
         x \in {SemVer(a)}, y \in {SemVer(b)} })

\* The exclusive upper bound of the caret range ^r: the next major version, or
\* below 1.0.0 the next minor, or below 0.1.0 the next patch.
CaretUpper(r) ==
  IF r.major > 0 THEN [r EXCEPT !.major = @ + 1, !.minor = 0, !.patch = 0,
                                !.prerelease = <<>>]
  ELSE IF r.minor > 0 THEN [r EXCEPT !.minor = @ + 1, !.patch = 0, !.prerelease = <<>>]
  ELSE [r EXCEPT !.patch = @ + 1, !.prerelease = <<>>]

\* The test of a parsed version v against the range of the given kind on the
\* parsed version r. A version with a prerelease satisfies only a comparator
\* on the same X.Y.Z that has one too.
TestRange(v, kind, r) ==
  /\ v.valid
  /\ kind = "*" \/ r.valid
  /\ \/ v.prerelease = <<>>
     \/ /\ kind # "*" /\ r.prerelease # <<>>
        /\ r.major = v.major /\ r.minor = v.minor /\ r.patch = v.patch
  /\ CASE kind = "*"  -> TRUE
       [] kind = "^"  -> CompareParsed(v, r) >= 0 /\ CompareParsed(v, CaretUpper(r)) < 0
       [] kind = ">=" -> CompareParsed(v, r) >= 0
       [] OTHER       -> CompareParsed(v, r) = 0

\* semver.satisfies(version, range) for the ranges '*', '^X.Y.Z', '>=X.Y.Z' and
\* 'X.Y.Z'. An invalid range and an invalid version give false.
SemverSatisfies(version, range) ==
  LET kind == IF range = <<"*">> THEN "*"
              ELSE IF range # <<>> /\ Head(range) = "^" THEN "^"
              ELSE IF Len(range) >= 2 /\ SubSeq(range, 1, 2) = <<">", "=">> THEN ">="
              ELSE "="
      rest == IF kind = "^" THEN Tail(range)
              ELSE IF kind = ">=" THEN SubSeq(range, 3, Len(range))
              ELSE IF kind = "*" THEN <<>>
              ELSE range
  IN Only({ TestRange(v, kind, r) : v \in {SemVer(version)}, r \in {SemVer(rest)} })

-----------------------------------------------------------------------------
(* sortTags and matchTag.                                                  *)

\* tags.filter(tag => tag.indexOf('v') === 0)
RECURSIVE FilterVersionTags(_)
FilterVersionTags(ts) ==
  IF ts = <<>> THEN <<>>
  ELSE IF IndexOf(Head(ts), "v") = 0
    THEN <<Head(ts)>> \o FilterVersionTags(Tail(ts))
    ELSE FilterVersionTags(Tail(ts))

\* const cmp = desc ? semver.gt : semver.lt
Cmp(d, a, b) == IF d THEN SemverGt(a, b) ELSE SemverLt(a, b)

\* The comparison function handed to sort: 0 for the same name, otherwise 1
\* when cmp(a, b) and -1 when not.
CompareFn(d, a, b) ==
  IF a = b THEN Returned(0)
  ELSE Only({ IF c.threw THEN Thrown ELSE Returned(IF c.value THEN 1 ELSE -1) :
              c \in {Cmp(d, a, b)} })

\* Array.prototype.sort with a comparison function on a short array: insertion
\* sort. element moves left past every a[j] with comparefn(a[j], element) > 0.
\* An exception of the comparison function ends the sort.
RECURSIVE InsertFrom(_, _, _, _)
InsertFrom(d, a, element, j) ==
  IF j = 0 THEN Returned(<<element>> \o a)
  ELSE Only({ IF order.threw THEN Thrown
              ELSE IF order.value > 0 THEN InsertFrom(d, a, element, j - 1)
              ELSE Returned(SubSeq(a, 1, j) \o <<element>> \o SubSeq(a, j + 1, Len(a))) :
              order \in {CompareFn(d, a[j], element)} })

RECURSIVE SortFrom(_, _, _)
SortFrom(d, done, rest) ==
  IF rest = <<>> THEN Returned(done)
  ELSE Only({ IF ins.threw THEN Thrown ELSE SortFrom(d, ins.value, Tail(rest)) :
              ins \in {InsertFrom(d, done, Head(rest), Len(done))} })

\* sortTags(tags, desc)
SortTags(ts, d) ==
  Only({ SortFrom(d, <<>>, filtered) : filtered \in {FilterVersionTags(ts)} })

\* The loop of matchTag over the sorted tags: the first tag whose name without
\* its first 'v' satisfies the range, or null.
Null == <<"null">>
RECURSIVE FirstSatisfying(_, _)
FirstSatisfying(sorted, range) ==
  IF sorted = <<>> THEN Null
  ELSE IF SemverSatisfies(RemoveFirst(Head(sorted), <<"v">>), range) THEN Head(sorted)
  ELSE FirstSatisfying(Tail(sorted), range)

\* matchTag(tags, needed): sortTags is called without its second argument.
MatchTag(ts, range) ==
  Only({ IF sorted.threw THEN Thrown ELSE Returned(FirstSatisfying(sorted.value, range)) :
         sorted \in {SortTags(ts, FALSE)} })

-----------------------------------------------------------------------------
(* The version selector as a state machine: one call of sortTags or of     *)
(* matchTag on arguments drawn from small sets.                            *)

\* Tag names a remote may carry: versions, a version with build metadata (same
\* precedence as v1.2.0), a prerelease, a name that begins with 'v' and is no
\* version, and a name without the prefix.
TagNames ==
  { <<"v","1",".","0",".","0">>,
    <<"v","1",".","2",".","0">>,
    <<"v","1",".","2",".","0","+","b">>,
    <<"v","2",".","0",".","0","-","r","c">>,
    <<"v","f","o","o">>,
    <<"1",".","0",".","0">> }

Ranges ==
  { <<"^","1",".","0",".","0">>,
    <<">","=","1",".","2",".","0">>,
    <<"2",".","0",".","0","-","r","c">>,
    <<"x">> }

NoCall == [threw |-> FALSE, value |-> <<>>]

IdleTags ==
  /\ tags = <<>> /\ desc = FALSE /\ needed = <<>>
  /\ tagsCall = "none" /\ tagsRet = NoCall

InitTags ==
  /\ tags \in SeqsUpTo(TagNames, MaxTags)
  /\ desc \in BOOLEAN
  /\ needed \in Ranges
  /\ tagsCall = "none"
  /\ tagsRet = NoCall

CallSortTags ==
  /\ tagsCall = "none"
  /\ tagsCall' = "sortTags"
  /\ tagsRet' = SortTags(tags, desc)
  /\ UNCHANGED <<tags, desc, needed>>

CallMatchTag ==
  /\ tagsCall = "none"
  /\ tagsCall' = "matchTag"
  /\ tagsRet' = MatchTag(tags, needed)
  /\ UNCHANGED <<tags, desc, needed>>

-----------------------------------------------------------------------------
(* listTags and listBranches.                                              *)

ThrownWith(e) == [threw |-> TRUE, value |-> e]
Undefined == <<"undefined">>

IsHex(c) == c \in {"a","b","c","d","e","f","0","1","2","3","4","5","6","7","8","9"}

TagsPrefix  == <<"r","e","f","s","/","t","a","g","s","/">>
HeadsPrefix == <<"r","e","f","s","/","h","e","a","d","s","/">>
DerefSuffix == <<"^","{","}">>

\* item.match(/^([a-f0-9]+)\t<prefix>(.*)$/): ok is FALSE where match is null,
\* else hash is group 1 and name is group 2.
MatchRef(item, prefix) ==
  LET tab  == IndexOf(item, "\t")
      rest == SubSeq(item, tab + 2, Len(item))
      ok   == /\ tab >= 1
              /\ \A i \in 1..tab : IsHex(item[i])
              /\ Len(rest) >= Len(prefix)
              /\ SubSeq(rest, 1, Len(prefix)) = prefix
  IN IF ok
       THEN [ok |-> TRUE, hash |-> SubSeq(item, 1, tab),
             name |-> SubSeq(rest, Len(prefix) + 1, Len(rest))]
       ELSE [ok |-> FALSE, hash |-> <<>>, name |-> <<>>]

\* stdout.trim().split('\n')
Items(out) == Split(Trim(out), "\n")

\* tag.includes('^{}')
IsAnnotated(tag) == IndexOfStr(tag, DerefSuffix) >= 0

\* A variant that keeps the name as it stands.
TagKeyKeepingSuffix(tag) == tag

\* The key a ref line is recorded under: tag.replace('^{}', '') when the name
\* includes '^{}', else the name.
TagKey(tag) == IF IsAnnotated(tag) THEN RemoveFirst(tag, DerefSuffix) ELSE tag

\* The body of listTags' loop once the line has matched: the record of the key
\* is created when missing, its annotated or its commit hash set, and its name.
\* (The names are own keys: no name is a member of Object.prototype.)
RecordTag(acc, hash, tag) ==
  LET key == TagKey(tag)
      old == IF key \in DOMAIN acc THEN acc[key]
             ELSE [name |-> Undefined, commit |-> Undefined, annotated |-> Undefined]
      new == IF IsAnnotated(tag)
               THEN [old EXCEPT !.annotated = hash, !.name = key]
               ELSE [old EXCEPT !.commit = hash, !.name = key]
  IN [k \in DOMAIN acc \cup {key} |-> IF k = key THEN new ELSE acc[k]]

\* A variant that passes over a line that does not match.
TagsStepSkipping(acc, item) ==
  LET match == MatchRef(item, TagsPrefix)
  IN IF ~match.ok THEN Returned(acc)
     ELSE Returned(RecordTag(acc, match.hash, match.name))

\* One iteration of listTags' loop: match[1] of a null match is a TypeError.
TagsStep(acc, item) ==
  LET match == MatchRef(item, TagsPrefix)
  IN IF ~match.ok THEN ThrownWith("TypeError")
     ELSE Returned(RecordTag(acc, match.hash, match.name))

RECURSIVE TagsLoop(_, _)
TagsLoop(acc, items) ==
  IF items = <<>> THEN Returned(acc)
  ELSE LET step == TagsStep(acc, Head(items))
       IN IF step.threw THEN step ELSE TagsLoop(step.value, Tail(items))

\* listTags once exec has resolved with stdout.
ListTags(out) == TagsLoop(<<>>, Items(out))

\* One iteration of listBranches' loop.
BranchesStep(acc, item) ==
  LET match == MatchRef(item, HeadsPrefix)
  IN IF ~match.ok THEN ThrownWith("TypeError")
     ELSE Returned([k \in DOMAIN acc \cup {match.name} |->
                      IF k = match.name THEN match.hash ELSE acc[k]])

RECURSIVE BranchesLoop(_, _)
BranchesLoop(acc, items) ==
  IF items = <<>> THEN Returned(acc)
  ELSE LET step == BranchesStep(acc, Head(items))
       IN IF step.threw THEN step ELSE BranchesLoop(step.value, Tail(items))

\* listBranches once exec has resolved with stdout.
ListBranches(out) == BranchesLoop(<<>>, Items(out))

(* The remote ref reader as a state machine: one call on an output drawn   *)
(* from small sets of lines.                                               *)

RefLine(hash, prefix, name) == hash \o <<"\t">> \o prefix \o name

\* Lines `git ls-remote` may print, and lines it should not: an empty line, a
\* hash that is not lowercase hex.
RefLines ==
  { RefLine(<<"a","1">>, TagsPrefix, <<"v","1">>),
    RefLine(<<"b","2">>, TagsPrefix, <<"v","1">> \o DerefSuffix),
    RefLine(<<"c","3">>, TagsPrefix, <<"v","2">>),
    RefLine(<<"a","1">>, HeadsPrefix, <<"m">>),
    RefLine(<<"b","2">>, HeadsPrefix, <<"x">>),
    RefLine(<<"X","1">>, TagsPrefix, <<"v","2">>),
    <<>> }

\* The output made of the given lines, each ended by a newline.
RECURSIVE Output(_)
Output(ls) == IF ls = <<>> THEN <<>> ELSE Head(ls) \o <<"\n">> \o Output(Tail(ls))

IdleRefs == stdout = <<>> /\ refsCall = "none" /\ refsRet = NoCall

InitRefs ==
  /\ stdout \in {Output(ls) : ls \in SeqsUpTo(RefLines, MaxLines)}
  /\ refsCall = "none"
  /\ refsRet = NoCall

\* exec rejects when git fails (the remote is unreachable): the call rejects
\* with that error before it reads any output.
ExecFails ==
  /\ refsCall = "none"
  /\ \E op \in {"listTags", "listBranches"} : refsCall' = op
  /\ refsRet' = ThrownWith("ExecError")
  /\ UNCHANGED stdout

CallListTags ==
  /\ refsCall = "none"
  /\ refsCall' = "listTags"
  /\ refsRet' = ListTags(stdout)
  /\ UNCHANGED stdout

CallListBranches ==
  /\ refsCall = "none"
  /\ refsCall' = "listBranches"
  /\ refsRet' = ListBranches(stdout)
  /\ UNCHANGED stdout

-----------------------------------------------------------------------------
(* verifyRepo.  A value that may be null is a sequence: <<>> for null and   *)
(* <<v>> for v (the exit code of 'close' is null when a signal ended the    *)
(* child).  Strings stay sequences of characters.                           *)

\* !tag: null and the empty string are falsy.
Falsy(x) == x = Null \/ x = <<>>

\* let args = ['verify-tag', tag]; if (!tag) args = ['verify-commit', commit];
VerifyArgs(tag, commit) ==
  IF Falsy(tag) THEN <<"verify-commit", commit>> ELSE <<"verify-tag", tag>>

CouldNotVerify == "Could not verify signature."

Pending      == [state |-> "pending",  value |-> "none"]
Resolved     == [state |-> "resolved", value |-> "undefined"]
Rejected(e)  == [state |-> "rejected", value |-> e]

\* child.once('error', err => reject(err)): a settled promise stays as it is.
OnError(p, err) == IF p.state = "pending" THEN Rejected(err) ELSE p

\* child.once('close', code => ...): resolve() when code === 0, else
\* reject(new Error('Could not verify signature.')).
OnClose(p, code) ==
  IF p.state # "pending" THEN p
  ELSE IF code = <<0>> THEN Resolved
  ELSE Rejected(CouldNotVerify)

NotSpawned == [spawned |-> FALSE, args |-> <<>>, cwd |-> "none", stdio |-> "none",
               error |-> <<>>, close |-> <<>>, first |-> "none"]

SpawnErrors == {"ENOENT", "EACCES"}
ExitCodes   == {<<0>>, <<1>>, <<128>>, <<>>}

IdleVerify ==
  /\ vTag = Null /\ vCommit = <<>> /\ vStdio = "none"
  /\ child = NotSpawned /\ verdict = Pending

InitVerify ==
  /\ vTag \in {Null, <<>>, <<"v","1",".","0",".","0">>}
  /\ vCommit \in {<<"a","1">>, <<"b","2">>}
  /\ vStdio \in {"inherit", "ignore"}
  /\ child = NotSpawned
  /\ verdict = Pending

\* verifyRepo up to the return of its promise: the child is spawned and the two
\* listeners are registered.
Spawn ==
  /\ ~child.spawned
  /\ child' = [child EXCEPT !.spawned = TRUE, !.args = VerifyArgs(vTag, vCommit),
                            !.cwd = "dst", !.stdio = vStdio]
  /\ UNCHANGED <<vTag, vCommit, vStdio, verdict>>

\* The child emits 'error' (it could not be spawned, or not be killed): the
\* once-listener runs for the first one.
EmitError ==
  /\ child.spawned /\ child.error = <<>>
  /\ \E err \in SpawnErrors :
       /\ child' = [child EXCEPT !.error = <<err>>,
                      !.first = IF child.first = "none" THEN "error" ELSE @]
       /\ verdict' = OnError(verdict, err)
  /\ UNCHANGED <<vTag, vCommit, vStdio>>

\* The child emits 'close' with its exit code, or null after a signal.
EmitClose ==
  /\ child.spawned /\ child.close = <<>>
  /\ \E code \in ExitCodes :
       /\ child' = [child EXCEPT !.close = <<code>>,
                      !.first = IF child.first = "none" THEN "close" ELSE @]
       /\ verdict' = OnClose(verdict, code)
  /\ UNCHANGED <<vTag, vCommit, vStdio>>

-----------------------------------------------------------------------------
(* listTree, checksum and treeHash.                                        *)

\* crypto.createHash(algo), hash.update(bytes), hash.digest(): a small hash
\* with one byte of state, fed one character at a time; the algorithm sets
\* its initial value.
CreateHash(a) == IF a = "sha256" THEN 7 ELSE 11

RECURSIVE HashUpdate(_, _)
HashUpdate(h, bytes) ==
  IF bytes = <<>> THEN h
  ELSE HashUpdate((h * 31 + CharCode(Head(bytes))) % 256, Tail(bytes))

\* The digest of a whole input.
Digest(a, bytes) == HashUpdate(CreateHash(a), bytes)

\* digest.toString('hex'): two lowercase hexadecimal digits per byte.
HexDigit(n) ==
  <<"0","1","2","3","4","5","6","7","8","9","a","b","c","d","e","f">>[n + 1]
ToHex(d) == <<HexDigit(d \div 16), HexDigit(d % 16)>>

\* Array.prototype.sort() without a comparison function: by code unit.
RECURSIVE InsertString(_, _)
InsertString(a, element) ==
  IF a = <<>> THEN <<element>>
  ELSE IF StrLess(element, a[Len(a)])
    THEN InsertString(SubSeq(a, 1, Len(a) - 1), element) \o <<a[Len(a)]>>
  ELSE a \o <<element>>

RECURSIVE SortStrings(_)
SortStrings(a) ==
  IF a = <<>> THEN <<>>
  ELSE InsertString(SortStrings(SubSeq(a, 1, Len(a) - 1)), a[Len(a)])

\* listTree once `git ls-tree` has printed out: stdout.trim().split('\n').sort()
ListTree(out) == SortStrings(Split(Trim(out), "\n"))

\* The two chunks treeHash feeds to ctx for a file: the digest in hex, and two
\* spaces, the file name and a newline.
HexChunk(digest)    == ToHex(digest)
NameChunk(filename) == <<" ", " ">> \o filename \o <<"\n">>

NoResult      == [kind |-> "none",   digest |-> 0, error |-> "none"]
DigestOf(d)   == [kind |-> "digest", digest |-> d, error |-> "none"]
ErrorOf(e)    == [kind |-> "error",  digest |-> 0, error |-> e]

\* A read stream as checksum creates it, with its hash and its promise.
NewStream(filename, a) ==
  [file |-> filename, state |-> "open", pos |-> 0, hash |-> CreateHash(a),
   promise |-> NoResult]

\* What the read stream of path.join(base, filename) finds: a tracked file, the
\* base directory itself for the empty name, or nothing.
IsTracked(filename) == filename \in DOMAIN fs
Content(filename)   == IF IsTracked(filename) THEN fs[filename].content ELSE <<>>
Fault(filename)     == IF filename = <<>> THEN "EISDIR"
                       ELSE IF ~IsTracked(filename) THEN "ENOENT"
                       ELSE fs[filename].fault

\* A variant that resolves with the digest of what was read so far.
OnStreamErrorPartial(st, err) ==
  [st EXCEPT !.state = "error", !.promise = DigestOf(st.hash)]

\* stream.once('error', err => reject(err))
OnStreamError(st, err) ==
  [st EXCEPT !.state = "error", !.promise = ErrorOf(err)]

\* stream.once('end', () => { hash.end(); resolve(hash.digest()); })
OnStreamEnd(st) ==
  [st EXCEPT !.state = "ended", !.promise = DigestOf(st.hash)]

\* A variant that starts the next checksum while the last one is still awaited.
LoopHeadParallel == pc \in {"loop", "await"} /\ files # <<>>

\* while (files.length > 0), reached at the head of the loop.
LoopHead == pc = "loop" /\ files # <<>>

\* The stream treeHash awaits: the last one created.
Awaited == streams[Len(streams)]

(* The content digest engine as a state machine: one treeHash call on a    *)
(* checkout drawn from small sets, one step per callback or continuation.  *)

\* Tracked paths: two plain names and one that begins with a space.
TreePaths == { <<"a">>, <<"b">>, <<" ", "a">> }

\* A tracked file: its bytes, and how reading it fails ("none": it does not;
\* "EACCES": it cannot be opened; "EIO": a read fails at some point).
FileStates ==
  { [content |-> <<>>,         fault |-> "none"],
    [content |-> <<"x", "y">>, fault |-> "none"],
    [content |-> <<"x", "y">>, fault |-> "EACCES"],
    [content |-> <<"x", "y">>, fault |-> "EIO"] }

\* The orders in which the paths of S can be listed.
Orders(S) ==
  {p \in [1..Cardinality(S) -> S] : \A i, j \in 1..Cardinality(S) : p[i] = p[j] => i = j}

IdleTree ==
  /\ fs = <<>> /\ listing = <<>> /\ lsErr = FALSE /\ algo = "none"
  /\ pc = "idle" /\ files = <<>> /\ streams = <<>> /\ ctx = 0 /\ fed = <<>>
  /\ result = NoResult /\ runs = 0 /\ firstResult = NoResult

InitTree ==
  /\ \E S \in SUBSET TreePaths :
       /\ Cardinality(S) <= MaxFiles
       /\ fs \in [S -> FileStates]
       /\ listing \in Orders(S)
  /\ lsErr \in BOOLEAN
  /\ algo \in {"sha256", "sha512"}
  /\ pc = "listTree" /\ files = <<>> /\ streams = <<>> /\ ctx = 0 /\ fed = <<>>
  /\ result = NoResult /\ runs = 1 /\ firstResult = NoResult

\* The callback of execFile in listTree, and treeHash up to its loop: with an
\* error the promise is rejected (the resolve after it changes nothing) and
\* treeHash rejects; otherwise files is the sorted list and ctx a new hash.
ListTreeReturns ==
  /\ pc = "listTree"
  /\ IF lsErr
       THEN /\ pc' = "rejected"
            /\ result' = ErrorOf("GitError")
            /\ UNCHANGED <<files, ctx>>
       ELSE /\ pc' = "loop"
            /\ files' = ListTree(Output(listing))
            /\ ctx' = CreateHash(algo)
            /\ UNCHANGED result
  /\ UNCHANGED <<fs, listing, lsErr, algo, streams, fed, runs, firstResult>>

\* files.shift() and the call of checksum: the read stream is created and its
\* listeners registered; treeHash awaits the promise.
StartChecksum ==
  /\ LoopHead
  /\ files' = Tail(files)
  /\ streams' = Append(streams, NewStream(Head(files), algo))
  /\ pc' = "await"
  /\ UNCHANGED <<fs, listing, lsErr, algo, ctx, fed, result, runs, firstResult>>

\* The stream pipes its next chunk (one byte) into the hash.
StreamData ==
  /\ \E i \in 1..Len(streams) :
       LET st == streams[i] IN
       /\ st.state = "open"
       /\ Fault(st.file) \in {"none", "EIO"}
       /\ st.pos < Len(Content(st.file))
       /\ streams' = [streams EXCEPT ![i] =
            [st EXCEPT !.pos = @ + 1,
                       !.hash = HashUpdate(@, <<Content(st.file)[st.pos + 1]>>)]]
  /\ UNCHANGED <<fs, listing, lsErr, algo, pc, files, ctx, fed, result, runs,
                 firstResult>>

\* The stream emits 'end' after the last byte of a file that reads without
\* fault.
StreamEnd ==
  /\ \E i \in 1..Len(streams) :
       LET st == streams[i] IN
       /\ st.state = "open"
       /\ Fault(st.file) = "none"
       /\ st.pos = Len(Content(st.file))
       /\ streams' = [streams EXCEPT ![i] = OnStreamEnd(st)]
  /\ UNCHANGED <<fs, listing, lsErr, algo, pc, files, ctx, fed, result, runs,
                 firstResult>>

\* The stream emits 'error': at once when the path cannot be opened or is the
\* directory, at any point of the file when a read fails. No 'end' follows.
StreamError ==
  /\ \E i \in 1..Len(streams) :
       LET st == streams[i] IN
       /\ st.state = "open"
       /\ Fault(st.file) # "none"
       /\ Fault(st.file) # "EIO" => st.pos = 0
       /\ streams' = [streams EXCEPT ![i] = OnStreamError(st, Fault(st.file))]
  /\ UNCHANGED <<fs, listing, lsErr, algo, pc, files, ctx, fed, result, runs,
                 firstResult>>

\* The await of checksum returns the digest: the two ctx.update calls.
Resume ==
  /\ pc = "await"
  /\ Awaited.promise.kind = "digest"
  /\ LET hex  == HexChunk(Awaited.promise.digest)
         name == NameChunk(Awaited.file)
     IN /\ ctx' = HashUpdate(HashUpdate(ctx, hex), name)
        /\ fed' = fed \o <<hex, name>>
  /\ pc' = "loop"
  /\ UNCHANGED <<fs, listing, lsErr, algo, files, streams, result, runs, firstResult>>

\* The await of checksum throws: treeHash rejects with the error.
ResumeThrow ==
  /\ pc = "await"
  /\ Awaited.promise.kind = "error"
  /\ pc' = "rejected"
  /\ result' = ErrorOf(Awaited.promise.error)
  /\ UNCHANGED <<fs, listing, lsErr, algo, files, streams, ctx, fed, runs, firstResult>>

\* files is empty at the head of the loop: return ctx.digest().
Finish ==
  /\ pc = "loop" /\ files = <<>>
  /\ pc' = "done"
  /\ result' = DigestOf(ctx)
  /\ UNCHANGED <<fs, listing, lsErr, algo, files, streams, ctx, fed, runs, firstResult>>

\* treeHash is called once more on the same checkout, git listing the paths in
\* an order of its own.
CallAgain ==
  /\ pc \in {"done", "rejected"} /\ runs = 1
  /\ firstResult' = result
  /\ listing' \in Orders(DOMAIN fs)
  /\ runs' = 2
  /\ pc' = "listTree" /\ files' = <<>> /\ streams' = <<>> /\ ctx' = 0 /\ fed' = <<>>
  /\ result' = NoResult
  /\ UNCHANGED <<fs, lsErr, algo>>

-----------------------------------------------------------------------------
(* The specifications: one per component, the others idle.                 *)

tagsIdle   == UNCHANGED tagVars
refsIdle   == UNCHANGED refVars
verifyIdle == UNCHANGED verifyVars
treeIdle   == UNCHANGED treeVars

NextTags ==
  \/ CallSortTags /\ refsIdle /\ verifyIdle /\ treeIdle
  \/ CallMatchTag /\ refsIdle /\ verifyIdle /\ treeIdle
InitTagsOnly == InitTags /\ IdleRefs /\ IdleVerify /\ IdleTree
SpecTags == InitTagsOnly /\ [][NextTags]_vars

NextRefs ==
  \/ ExecFails        /\ tagsIdle /\ verifyIdle /\ treeIdle
  \/ CallListTags     /\ tagsIdle /\ verifyIdle /\ treeIdle
  \/ CallListBranches /\ tagsIdle /\ verifyIdle /\ treeIdle
InitRefsOnly == IdleTags /\ InitRefs /\ IdleVerify /\ IdleTree
SpecRefs == InitRefsOnly /\ [][NextRefs]_vars

NextVerify ==
  \/ Spawn     /\ tagsIdle /\ refsIdle /\ treeIdle
  \/ EmitError /\ tagsIdle /\ refsIdle /\ treeIdle
  \/ EmitClose /\ tagsIdle /\ refsIdle /\ treeIdle
InitVerifyOnly == IdleTags /\ IdleRefs /\ InitVerify /\ IdleTree
SpecVerify == InitVerifyOnly /\ [][NextVerify]_vars

NextTree ==
  \/ ListTreeReturns /\ tagsIdle /\ refsIdle /\ verifyIdle
  \/ StartChecksum   /\ tagsIdle /\ refsIdle /\ verifyIdle
  \/ StreamData      /\ tagsIdle /\ refsIdle /\ verifyIdle
  \/ StreamEnd       /\ tagsIdle /\ refsIdle /\ verifyIdle
  \/ StreamError     /\ tagsIdle /\ refsIdle /\ verifyIdle
  \/ Resume          /\ tagsIdle /\ refsIdle /\ verifyIdle
  \/ ResumeThrow     /\ tagsIdle /\ refsIdle /\ verifyIdle
  \/ Finish          /\ tagsIdle /\ refsIdle /\ verifyIdle
InitTreeOnly == IdleTags /\ IdleRefs /\ IdleVerify /\ InitTree
SpecTree == InitTreeOnly /\ [][NextTree]_vars

NextTreeTwice ==
  \/ NextTree
  \/ CallAgain /\ tagsIdle /\ refsIdle /\ verifyIdle
SpecTreeTwice == InitTreeOnly /\ [][NextTreeTwice]_vars

-----------------------------------------------------------------------------
(* Properties of the version selector (under SpecTags).                    *)

BeginsWithV(tag) == tag # <<>> /\ Head(tag) = "v"
Stripped(tag)    == Tail(tag)
Count(seq, x)    == Cardinality({i \in 1..Len(seq) : seq[i] = x})

\* a has strictly greater version precedence than b.
Greater(a, b) ==
  SemVer(a).valid /\ SemVer(b).valid /\ CompareParsed(SemVer(a), SemVer(b)) > 0

\* The positions of the input tags that begin with 'v' and, stripped of it,
\* satisfy the constraint.
Candidates == {i \in 1..Len(tags) :
                 BeginsWithV(tags[i]) /\ SemverSatisfies(Stripped(tags[i]), needed)}

\* The result of sortTags is the 'v' names of the input, each as often as in the
\* input, and no element is out of order with the one before it.
IsSortedVersionTags(out) ==
  /\ \A n \in TagNames : Count(out, n) = IF BeginsWithV(n) THEN Count(tags, n) ELSE 0
  /\ \A i \in 2..Len(out) :
       IF desc THEN ~Greater(out[i-1], out[i]) ELSE ~Greater(out[i], out[i-1])

\* The result of matchTag is a candidate that no candidate exceeds, or null
\* when there is none.
IsBestMatch(t) ==
  /\ t = Null <=> Candidates = {}
  /\ t # Null =>
       /\ \E i \in Candidates : tags[i] = t
       /\ \A j \in Candidates : ~Greater(Stripped(tags[j]), Stripped(t))

\* Every input name that begins with 'v' is a version.
OnlyVersions == \A i \in 1..Len(tags) : BeginsWithV(tags[i]) => SemVer(tags[i]).valid

\* C1: for every sequence of tag names and every constraint, matchTag returns a
\* tag of the input that begins with 'v', whose stripped version satisfies the
\* constraint and that no other such tag exceeds in precedence, and returns null
\* exactly when no 'v' tag satisfies the constraint.
MatchTagReturnsBest ==
  tagsCall = "matchTag" => (~tagsRet.threw /\ IsBestMatch(tagsRet.value))

\* C1 where every 'v' name of the input is a version.
MatchTagReturnsBestOnVersions ==
  (tagsCall = "matchTag" /\ OnlyVersions) => (~tagsRet.threw /\ IsBestMatch(tagsRet.value))

\* C5: for every sequence of tag names, sortTags returns exactly the input names
\* that begin with 'v', in descending precedence without the flag and in
\* ascending precedence with it (no element strictly out of order with the one
\* before it).
SortTagsOrdersVersionTags ==
  tagsCall = "sortTags" => (~tagsRet.threw /\ IsSortedVersionTags(tagsRet.value))

\* C5 where every 'v' name of the input is a version.
SortTagsOrdersVersionTagsOnVersions ==
  (tagsCall = "sortTags" /\ OnlyVersions)
    => (~tagsRet.threw /\ IsSortedVersionTags(tagsRet.value))

\* C8: sortTags and matchTag never raise an error, whatever the names (names
\* that begin with 'v' and are no version, duplicates) and the constraint.
SelectorNeverRaises == tagsCall # "none" => ~tagsRet.threw

-----------------------------------------------------------------------------
(* Properties of the remote ref reader (under SpecRefs).                   *)

\* The lines of an output, each ended by its newline.
OutputLines(out) ==
  LET pieces == Split(out, "\n")
  IN IF pieces[Len(pieces)] = <<>> THEN SubSeq(pieces, 1, Len(pieces) - 1) ELSE pieces

EndsWithDeref(name) ==
  Len(name) >= 3 /\ SubSeq(name, Len(name) - 2, Len(name)) = DerefSuffix
LogicalName(name) ==
  IF EndsWithDeref(name) THEN SubSeq(name, 1, Len(name) - 3) ELSE name

\* A ref list as git prints it: every line is <hex>\trefs/tags/<name>, a name is
\* not empty, has no whitespace and no '^{}' but as its suffix, and no ref is
\* listed twice.
WellFormedTagList(ls) ==
  /\ \A i \in 1..Len(ls) :
       LET m == MatchRef(ls[i], TagsPrefix)
       IN /\ m.ok
          /\ LogicalName(m.name) # <<>>
          /\ ~IsAnnotated(LogicalName(m.name))
          /\ \A k \in 1..Len(m.name) : ~IsSpace(m.name[k])
  /\ \A i, j \in 1..Len(ls) :
       MatchRef(ls[i], TagsPrefix).name = MatchRef(ls[j], TagsPrefix).name => i = j

ExecFailed == refsRet.threw /\ refsRet.value = "ExecError"

PrefixOf(call) == IF call = "listTags" THEN TagsPrefix ELSE HeadsPrefix

-----------------------------------------------------------------------------
(* Properties of the trust verifier (under SpecVerify).                    *)

\* C2: verifyRepo resolves only when the child closes with status 0; for every
\* other outcome (a non-zero status, a signal, a spawn 'error', in any order of
\* 'error' and 'close') it rejects with the same error, 'Could not verify
\* signature'.
VerifyRejectsAlike ==
  /\ verdict.state = "resolved" => child.close = <<<<0>>>>
  /\ (child.first # "none" /\ ~(child.first = "close" /\ child.close = <<<<0>>>>))
       => verdict = Rejected(CouldNotVerify)

\* What holds of the code: success only after a close with status 0, a
\* rejection for every other first event.
VerifyFailsClosed ==
  /\ verdict.state = "resolved" => (child.first = "close" /\ child.close = <<<<0>>>>)
  /\ (child.first # "none" /\ ~(child.first = "close" /\ child.close = <<<<0>>>>))
       => verdict.state = "rejected"

-----------------------------------------------------------------------------
(* Properties of the content digest engine (under SpecTree, and under      *)
(* SpecTreeTwice for two calls on one checkout).                           *)

Settled == pc \in {"done", "rejected"}

AllReadable == ~lsErr /\ \A f \in DOMAIN fs : fs[f].fault = "none"

\* The tracked paths in lexicographic order.
SortedPaths ==
  CHOOSE p \in Orders(DOMAIN fs) : \A i, j \in 1..Len(p) : i < j => StrLess(p[i], p[j])

\* The manifest line of a tracked file: the hex digest of its content, two
\* spaces, its path, a newline.
ManifestLine(f) ==
  ToHex(Digest(algo, fs[f].content)) \o <<" ", " ">> \o f \o <<"\n">>

\* The manifest: the lines of the tracked files in sorted order.
Manifest == Concat([i \in 1..Len(SortedPaths) |-> ManifestLine(SortedPaths[i])])

\* C3: for every set of readable tracked files, the empty set included, treeHash
\* returns the digest of the manifest, and feeds its running hash one line per
\* tracked file and nothing else.
TreeHashIsManifestDigest ==
  (Settled /\ AllReadable) =>
    /\ result = DigestOf(Digest(algo, Manifest))
    /\ Concat(fed) = Manifest
    /\ Len(fed) = 2 * Cardinality(DOMAIN fs)

\* No tracked path begins or ends with whitespace.
PlainPaths == \A f \in DOMAIN fs : Trim(f) = f

\* C3 on a checkout that tracks at least one file and only paths without
\* whitespace at either end.
TreeHashIsManifestDigestOnPlainPaths ==
  (Settled /\ AllReadable /\ DOMAIN fs # {} /\ PlainPaths) =>
    /\ result = DigestOf(Digest(algo, Manifest))
    /\ Concat(fed) = Manifest
    /\ Len(fed) = 2 * Cardinality(DOMAIN fs)

\* C4: two treeHash calls on one checkout give the same digest, whatever the
\* order in which the paths are listed to each.
SameDigestInAnyOrder ==
  (runs = 2 /\ pc = "done" /\ firstResult.kind = "digest") => result = firstResult

\* C4 on a checkout that tracks only paths without whitespace at either end:
\* the two calls end alike.
SameResultInAnyOrderOnPlainPaths ==
  (runs = 2 /\ Settled /\ PlainPaths) => result = firstResult

Open == {i \in 1..Len(streams) : streams[i].state = "open"}

\* C9: during a treeHash call at most one read stream is open; the checksum of
\* a file is not started before the line of the file before it has been fed to
\* the running hash; and the final digest is taken only after the line of the
\* last file has been fed.
OneFileAtATime ==
  /\ Cardinality(Open) <= 1
  /\ \A i \in 2..Len(streams) :
       /\ streams[i-1].state = "ended"
       /\ Len(fed) >= 2 * (i - 1)
       /\ fed[2 * (i - 1) - 1] = HexChunk(streams[i-1].promise.digest)
       /\ fed[2 * (i - 1)] = NameChunk(streams[i-1].file)
  /\ pc = "done" =>
       /\ files = <<>>
       /\ Len(streams) = Len(ListTree(Output(listing)))
       /\ \A i \in 1..Len(streams) : streams[i].state = "ended"
       /\ Len(fed) = 2 * Len(streams)
       /\ fed[Len(fed)] = NameChunk(Awaited.file)

\* The second file is being read, the line of the first one fed.
SecondFileBeingRead ==
  /\ pc = "await" /\ Len(streams) = 2
  /\ streams[2].state = "open" /\ streams[2].pos = 1
  /\ Len(fed) = 2

\* C10: checksum rejects when the file cannot be opened or a read fails, and
\* never resolves with the digest of the bytes read so far; treeHash then
\* rejects with that error, returns no digest, does not read the file again and
\* opens no later file.
ReadErrorRejects ==
  /\ \A i \in 1..Len(streams) :
       LET st == streams[i] IN
       /\ st.state = "error" =>
            /\ st.promise = ErrorOf(Fault(st.file))
            /\ i = Len(streams)
            /\ pc \in {"await", "rejected"}
            /\ \A j \in 1..(i - 1) : streams[j].file # st.file
       /\ st.promise.kind = "digest" =>
            /\ st.state = "ended"
            /\ Fault(st.file) = "none"
            /\ st.promise.digest = Digest(algo, Content(st.file))
  /\ (pc = "rejected" /\ ~lsErr) =>
       /\ Awaited.state = "error"
       /\ result = ErrorOf(Fault(Awaited.file))
  /\ pc = "done" => \A i \in 1..Len(streams) : streams[i].state = "ended"

\* treeHash has rejected after a read error in the middle of a file, a later
\* file of the list left unopened.
RejectedMidStream ==
  /\ pc = "rejected" /\ result = ErrorOf("EIO")
  /\ Awaited.state = "error" /\ Awaited.pos = 1
  /\ files # <<>>

=============================================================================
